---- MODULE Spec2Model ----
(***************************************************************************)
(* Model of the transcription worker of interventionweb-whisper:           *)
(*   src/tasks.py   get_whisper_model, transcribe_audio_with_callback      *)
(*                  (with its nested detect_audio_format) and              *)
(*                  send_enterprise_callback                               *)
(*   src/celery_app.py  the time limits and the acknowledgement settings   *)
(*                  the queue framework enforces                           *)
(*   src/main.py    the endpoints POST /transcribe and GET /result/{job_id} *)
(* One worker process runs one task at a time.  The task is cut into the   *)
(* steps between which the environment (filesystem, ffmpeg, the engine,    *)
(* the callback endpoint, the queue's time limit) can make a difference.   *)
(***************************************************************************)
EXTENDS Integers, Sequences, FiniteSets, TLC

(***************************************************************************)
(* Bounds of the model.                                                    *)
(***************************************************************************)
MaxJobs == 2        \* tasks the worker receives in one run
MaxTail == 1        \* bytes appended to a signature prefix (SpecDetect)
MaxTextLen == 2     \* characters of one segment text (SpecJoin)
MaxSegs == 3        \* segments the engine yields for one file (SpecJoin)
MaxPids == 2        \* process ids the worker pool hands out in one run
MaxTimedJobs == 1   \* tasks the worker receives in one run of SpecLimits
MaxQueueJobs == 1   \* jobs the endpoint accepts in one run of SpecQueue
MaxLost == 1        \* times the worker process is lost while it runs one job

(***************************************************************************)
(* Python values.  None is modelled per type so that TLC can compare.      *)
(***************************************************************************)
None == "None"
NoPath == [name |-> 0, ext |-> ""]
NoExc == [type |-> "None", msg |-> ""]
NoPid == 0
NoModel == 0

\* Python truthiness of an optional string: None and "" are falsy.
Truthy(x) == x # None /\ x # ""

(***************************************************************************)
(* Byte strings.  A value [head |-> h, zeros |-> n] is the byte string h   *)
(* (byte values 0..255) followed by n zero bytes.                          *)
(***************************************************************************)
RIFF == <<82, 73, 70, 70>>
EBML == <<26, 69, 223, 163>>
OggS == <<79, 103, 103, 83>>
ID3 == <<73, 68, 51>>
MPEGSync == <<255, 251>>
fLaC == <<102, 76, 97, 67>>

Bytes(h) == [head |-> h, zeros |-> 0]

\* len(data)
ByteLen(data) == Len(data.head) + data.zeros

\* data[i - 1], for i in 1..len(data)
ByteAt(data, i) == IF i <= Len(data.head) THEN data.head[i] ELSE 0

\* bytes.startswith(prefix)
startswith(data, prefix) ==
    /\ ByteLen(data) >= Len(prefix)
    /\ \A i \in 1..Len(prefix) : ByteAt(data, i) = prefix[i]

\* Mutant of detect_audio_format: the MPEG frame-sync alternative is lost.
detect_audio_format_noSync(audio_data) ==
    IF startswith(audio_data, RIFF) THEN ".wav"
    ELSE IF startswith(audio_data, EBML) THEN ".webm"
    ELSE IF startswith(audio_data, OggS) THEN ".ogg"
    ELSE IF startswith(audio_data, ID3) THEN ".mp3"
    ELSE IF startswith(audio_data, fLaC) THEN ".flac"
    ELSE ".webm"

\* tasks.py 62-77
detect_audio_format(audio_data) ==
    IF startswith(audio_data, RIFF) THEN ".wav"
    ELSE IF startswith(audio_data, EBML) THEN ".webm"
    ELSE IF startswith(audio_data, OggS) THEN ".ogg"
    ELSE IF startswith(audio_data, ID3) \/ startswith(audio_data, MPEGSync) THEN ".mp3"
    ELSE IF startswith(audio_data, fLaC) THEN ".flac"
    ELSE ".webm"

\* The byte string made of head followed by zero bytes up to n bytes in all.
Pad(head, n) == [head |-> head, zeros |-> n - Len(head)]

\* tasks.py 115: the size threshold of the task.
MinAudioBytes == 100

\* The payloads the worker is given in Spec: one per format, each at or
\* just under the size threshold, and the 5-byte payload.
AudioInputs ==
    { Pad(RIFF, MinAudioBytes), Pad(RIFF, MinAudioBytes - 1),
      Pad(EBML, MinAudioBytes),
      Pad(OggS, MinAudioBytes), Pad(ID3, MinAudioBytes), Pad(fLaC, MinAudioBytes),
      Pad(<<>>, MinAudioBytes), Bytes(<<104, 101, 108, 108, 111>>) }

\* The optional arguments of a task: job_id, callback_url, callback_token.
RequestInputs ==
    { <<None, None, None>>,
      <<None, "https://backend/cb", None>>,
      <<"job-A", "https://backend/cb", "tok">> }

\* The form fields of SpecQueue: no job_id, an empty one, and one supplied.
QueueRequests ==
    { <<None, "https://backend/cb", None>>,
      <<"", "https://backend/cb", None>>,
      <<"job-A", "https://backend/cb", "tok">> }

\* Celery's task id of the n-th task (self.request.id).
RequestId(n) == "task-" \o ToString(n)

(***************************************************************************)
(* Text: a Python str is a sequence of one-character strings.              *)
(***************************************************************************)
NoText == <<"None">>
Whitespace == {" ", "\t", "\n"}
TruthyText(t) == t # NoText /\ t # <<>>

RECURSIVE lstrip(_)
lstrip(s) == IF s # <<>> /\ Head(s) \in Whitespace THEN lstrip(Tail(s)) ELSE s

RECURSIVE rstrip(_)
rstrip(s) ==
    IF s # <<>> /\ s[Len(s)] \in Whitespace
    THEN rstrip(SubSeq(s, 1, Len(s) - 1))
    ELSE s

\* str.strip()
strip(s) == rstrip(lstrip(s))

\* " ".join(parts)
RECURSIVE join(_)
join(parts) ==
    IF parts = <<>> THEN <<>>
    ELSE IF Len(parts) = 1 THEN parts[1]
    ELSE parts[1] \o <<" ">> \o join(Tail(parts))

\* Membership of a text in the list of kept texts (the seen_texts set holds
\* exactly the texts appended to segment_texts).
Seen(kept, text) == \E i \in DOMAIN kept : kept[i] = text

\* Mutant of KeepSegment: the duplicate test is lost.
KeepSegment_noDedup(kept, text) == text # <<>>

\* tasks.py 157: if text and text not in seen_texts
KeepSegment(kept, text) == text # <<>> /\ ~Seen(kept, text)

\* tasks.py 143-161: the loop over the segments, from segment k on, with
\* segment_texts = kept.
RECURSIVE CollectSegments(_, _, _)
CollectSegments(segs, k, kept) ==
    IF k > Len(segs) THEN kept
    ELSE LET text == strip(segs[k])
         IN  CollectSegments(segs, k + 1,
                 IF KeepSegment(kept, text) THEN Append(kept, text) ELSE kept)

\* tasks.py 143-167: transcription = " ".join(segment_texts).strip()
JoinSegments(segs) == strip(join(CollectSegments(segs, 1, <<>>)))

(***************************************************************************)
(* State.                                                                  *)
(***************************************************************************)
VARIABLES
    \* the worker process (tasks.py 18-19 and os.getpid())
    current_pid, _process_model, _process_id,
    pids_used,          \* process ids handed out so far
    engines,            \* WhisperModel instances constructed so far
    model_log,          \* one entry per get_whisper_model call that returned:
                        \* the process, the handle returned, whether it was
                        \* constructed, the globals the call found, and
                        \* whether the call before it in the process raised
    load_failed_pid,    \* the process whose latest get_whisper_model call
                        \* raised, NoPid when the latest call returned
    \* the filesystem: the temporary files that exist
    files,
    \* the queue 'transcription' and the endpoints of main.py
    queue,              \* the messages waiting for a worker
    submitted,          \* messages published so far
    response,           \* the last response of POST /transcribe
    lookup,             \* the last response of GET /result/{job_id}
    deliveries,         \* times the last published message was given to a worker
    losses,             \* times a worker process was lost while running it
    reported,           \* statuses its earlier runs got through to the callback URL
    \* the task being run (arguments and locals of transcribe_audio_with_callback)
    jobs_run, pc,
    request_id,         \* self.request.id
    audio_bytes, job_id, callback_url, callback_token,
    actual_job_id, audio_format, temp_path, whisper_model,
    segments, transcription,
    calls,              \* what the task has called so far, with each outcome
    exc,                \* the exception caught by "except Exception as e"
    first_exc,          \* the first exception raised in the try body
    pending,            \* what the finally block resumes: a return or a raise
    result,             \* what the task gave to the queue framework
    limit,              \* "none", or "soft" once the soft time limit was raised
    \* send_enterprise_callback: arguments and locals of the running call
    cb, attempt, cb_slept, cb_state,
    cb_elapsed,         \* time units the running call has blocked its caller
    posts               \* the HTTP requests of this task, in order

procVars == <<current_pid, _process_model, _process_id, pids_used, engines, model_log,
             load_failed_pid>>
argVars == <<request_id, audio_bytes, job_id, callback_url, callback_token, actual_job_id>>
queueVars == <<queue, submitted, response, lookup, deliveries, losses, reported>>
cbVars == <<cb, attempt, cb_slept, cb_state, cb_elapsed, posts>>
vars == <<current_pid, _process_model, _process_id, pids_used, engines, model_log,
          load_failed_pid,
          files, queue, submitted, response, lookup, deliveries, losses, reported,
          jobs_run, pc, request_id, audio_bytes, job_id, callback_url, callback_token,
          actual_job_id, audio_format, temp_path, whisper_model, segments,
          transcription, calls, exc, first_exc, pending, result, limit,
          cb, attempt, cb_slept, cb_state, cb_elapsed, posts>>

NoCallback == [job_id |-> None, status |-> "None", transcription |-> NoText, error |-> None]
NoPending == [kind |-> "none", value |-> NoText, exc |-> NoExc]
NoResult == [kind |-> "none", value |-> NoText, exc |-> NoExc]
NoResponse == [code |-> 0, job_id |-> None, detail |-> ""]
NoLookup == [job_id |-> None, status |-> "None"]

\* tasks.py 42-46
fix_callback_url(original_url) == original_url

fixed_callback_url == fix_callback_url(callback_url)

Init ==
    /\ current_pid = 1
    /\ _process_model = NoModel
    /\ _process_id = NoPid
    /\ pids_used = 1
    /\ engines = 0
    /\ load_failed_pid = NoPid
    /\ model_log = <<>>
    /\ files = {}
    /\ queue = <<>>
    /\ submitted = 0
    /\ response = NoResponse
    /\ lookup = NoLookup
    /\ deliveries = 0
    /\ losses = 0
    /\ reported = {}
    /\ jobs_run = 0
    /\ pc = "idle"
    /\ request_id = None
    /\ audio_bytes = Bytes(<<>>)
    /\ job_id = None
    /\ callback_url = None
    /\ callback_token = None
    /\ actual_job_id = None
    /\ audio_format = ""
    /\ temp_path = NoPath
    /\ whisper_model = NoModel
    /\ segments = <<>>
    /\ transcription = NoText
    /\ calls = <<>>
    /\ exc = NoExc
    /\ first_exc = NoExc
    /\ pending = NoPending
    /\ result = NoResult
    /\ limit = "none"
    /\ cb = NoCallback
    /\ attempt = 0
    /\ cb_slept = 0
    /\ cb_elapsed = 0
    /\ cb_state = "none"
    /\ posts = <<>>

Resting == pc \in {"idle", "done"}

(***************************************************************************)
(* POST /transcribe, main.py 34-92.                                        *)
(***************************************************************************)
\* config.py 54
MAX_FILE_SIZE == 50 * 1024 * 1024

\* A payload one byte over the limit of the endpoint.
Oversize == Pad(RIFF, MAX_FILE_SIZE + 1)

\* The content types of the uploads: a str as a sequence of characters, or
\* NoText for a part without one.
AudioWebm == <<"a", "u", "d", "i", "o", "/", "w", "e", "b", "m">>
TextPlain == <<"t", "e", "x", "t", "/", "p", "l", "a", "i", "n">>
ContentTypes == {AudioWebm, TextPlain, NoText}

\* str.startswith(prefix)
startswithText(t, prefix) ==
    /\ Len(t) >= Len(prefix)
    /\ \A i \in 1..Len(prefix) : t[i] = prefix[i]

\* main.py 46
IsAudioContentType(ct) ==
    TruthyText(ct) /\ startswithText(ct, <<"a", "u", "d", "i", "o", "/">>)

\* main.py 75
IngressJobId(supplied, task_id) == IF Truthy(supplied) THEN supplied ELSE task_id

\* main.py 35-92, for an upload drawn from audios and form fields drawn from
\* requests, while fewer than n messages were published.  The endpoint is
\* called when no message is waiting and the worker is idle: the model
\* follows one message at a time from the endpoint to its acknowledgement.
PostTranscribeOf(n, audios, requests) ==
    /\ pc = "idle"
    /\ queue = <<>>
    /\ submitted < n
    /\ \E a \in audios, ct \in ContentTypes, r \in requests, broker_up \in BOOLEAN :
          IF ~IsAudioContentType(ct)
          THEN /\ response' = [code |-> 400, job_id |-> None,
                               detail |-> "Invalid file type. Only audio files are allowed."]
               /\ UNCHANGED <<queue, submitted, lookup, deliveries, losses, reported>>
          ELSE IF ByteLen(a) > MAX_FILE_SIZE
          THEN /\ response' = [code |-> 413, job_id |-> None, detail |-> "File too large"]
               /\ UNCHANGED <<queue, submitted, lookup, deliveries, losses, reported>>
          ELSE IF ~broker_up                    \* apply_async raises, main.py 90-92
          THEN /\ response' = [code |-> 500, job_id |-> None, detail |-> "Internal error"]
               /\ UNCHANGED <<queue, submitted, lookup, deliveries, losses, reported>>
          ELSE /\ queue' = << [id |-> RequestId(submitted + 1), audio_bytes |-> a,
                                job_id |-> r[1], callback_url |-> r[2],
                                callback_token |-> r[3]] >>
               /\ submitted' = submitted + 1
               /\ response' = [code |-> 200,
                               job_id |-> IngressJobId(r[1], RequestId(submitted + 1)),
                               detail |-> "processing"]
               /\ lookup' = NoLookup
               /\ deliveries' = 0
               /\ losses' = 0
               /\ reported' = {}
    /\ UNCHANGED <<procVars, argVars, cbVars, files, jobs_run, pc, audio_format,
                   temp_path, whisper_model, segments, transcription, calls, exc,
                   first_exc, pending, result, limit>>

PostTranscribe == PostTranscribeOf(MaxJobs, AudioInputs, RequestInputs)

\* Mutant of ActualJobId: the task always reports under its task id.
ActualJobId_taskId(supplied, task_id) == task_id

\* tasks.py 52
ActualJobId(supplied, task_id) == IF Truthy(supplied) THEN supplied ELSE task_id

\* The queue hands the first waiting message to the worker: tasks.py 49-55.
\* With task_acks_late (celery_app.py 34) the message stays unacknowledged
\* while the task runs.
TaskReceived ==
    /\ Resting
    /\ queue # <<>>
    /\ request_id' = Head(queue).id
    /\ audio_bytes' = Head(queue).audio_bytes
    /\ job_id' = Head(queue).job_id
    /\ callback_url' = Head(queue).callback_url
    /\ callback_token' = Head(queue).callback_token
    /\ actual_job_id' = ActualJobId(Head(queue).job_id, Head(queue).id)
    /\ queue' = Tail(queue)
    /\ deliveries' = deliveries + 1
    /\ jobs_run' = jobs_run + 1
    /\ pc' = "detect"
    /\ audio_format' = ""
    /\ temp_path' = NoPath
    /\ whisper_model' = NoModel
    /\ segments' = <<>>
    /\ transcription' = NoText
    /\ calls' = <<>>
    /\ exc' = NoExc
    /\ first_exc' = NoExc
    /\ pending' = NoPending
    /\ result' = NoResult
    /\ limit' = "none"
    /\ cb' = NoCallback
    /\ attempt' = 0
    /\ cb_slept' = 0
    /\ cb_elapsed' = 0
    /\ cb_state' = "none"
    /\ posts' = <<>>
    /\ UNCHANGED <<procVars, files, submitted, response, lookup, losses, reported>>

\* An exception raised in the try body reaches "except Exception as e"
\* (tasks.py 190).
Raise(e) ==
    /\ exc' = e
    /\ first_exc' = IF first_exc = NoExc THEN e ELSE first_exc
    /\ pc' = "except"

\* tasks.py 80
DetectFormat ==
    /\ pc = "detect"
    /\ audio_format' = detect_audio_format(audio_bytes)
    /\ pc' = "persist"
    /\ UNCHANGED <<procVars, argVars, queueVars, calls, cbVars, files, jobs_run, temp_path,
                   whisper_model, segments, transcription, exc, first_exc,
                   pending, result, limit>>

(***************************************************************************)
(* Exceptions: a type name and str(e).                                     *)
(***************************************************************************)
OSErrorNoSpace == [type |-> "OSError", msg |-> "[Errno 28] No space left on device"]
CalledProcessError ==
    [type |-> "CalledProcessError",
     msg |-> "Command '/usr/bin/ffmpeg' returned non-zero exit status 1."]
FfmpegMissing ==
    [type |-> "FileNotFoundError",
     msg |-> "[Errno 2] No such file or directory: '/usr/bin/ffmpeg'"]
InvalidDataError ==
    [type |-> "InvalidDataError",
     msg |-> "[Errno 1094995529] Invalid data found when processing input"]
EngineError == [type |-> "RuntimeError", msg |-> "parallel_for failed: out of memory"]
ModelLoadError == [type |-> "RuntimeError", msg |-> "Unable to open file 'model.bin'"]
SoftTimeLimitExceeded ==
    [type |-> "SoftTimeLimitExceeded", msg |-> "SoftTimeLimitExceeded()"]

\* Mutant of ConversionError: the ffmpeg failure is passed on as it is.
ConversionError_unwrapped(e) == e

\* tasks.py 109
ConversionError(e) ==
    [type |-> "ValueError", msg |-> "Error convirtiendo WebM a WAV: " \o e.msg]
\* tasks.py 116
TooSmallError(n) ==
    [type |-> "ValueError",
     msg |-> "Archivo de audio demasiado pequeno: " \o ToString(n) \o " bytes"]
\* tasks.py 138
CorruptAudioError(e) ==
    [type |-> "ValueError",
     msg |-> "Archivo de audio corrupto o formato no valido: " \o e.msg]
\* tasks.py 173
EmptyTranscriptionError == [type |-> "ValueError", msg |-> "Transcripcion vacia"]

\* tasks.py 137: "Invalid data found" in str(transcription_error)
InvalidDataFound(e) == e.msg \in {InvalidDataError.msg}

\* Mutant of error_msg: the error kind is dropped from the message.
error_msg_noKind(e) == e.msg

\* tasks.py 191
error_msg(e) == e.type \o ": " \o e.msg

\* What the engine yields in Spec: segment texts, in order.
Hola == <<"H", "o", "l", "a">>
mundo == <<"m", "u", "n", "d", "o">>
SegmentChoices ==
    { <<Hola, Hola, mundo>>, <<<<" ">> \o mundo, Hola, mundo \o <<" ">>>>,
      <<<<" ">>, <<>>>> }
EngineErrors == {InvalidDataError, EngineError}

\* The task called op on the file path, and the call ended in e (NoExc when
\* it returned).
Called(op, path, e) == calls' = Append(calls, [op |-> op, path |-> path, exc |-> e])

\* Mutant of NeedsConversion: ogg is sent through ffmpeg as well.
NeedsConversion_oggToo(fmt) == fmt \in {".webm", ".ogg"}

\* tasks.py 91
NeedsConversion(fmt) == fmt = ".webm"

\* tasks.py 84-86: NamedTemporaryFile(suffix=audio_format, delete=False), then
\* tmp.write, then temp_path = tmp.name.  The file exists from its creation
\* on; the name is recorded only after the write.
PersistTempFile ==
    /\ pc = "persist"
    /\ LET path == [name |-> jobs_run, ext |-> audio_format]
       IN  \/ /\ files' = files \cup {path}
              /\ temp_path' = path
              /\ Called("NamedTemporaryFile", path, NoExc)
              /\ pc' = IF NeedsConversion(audio_format) THEN "convert" ELSE "size"
              /\ UNCHANGED <<exc, first_exc>>
           \/ /\ Raise(OSErrorNoSpace)          \* the file cannot be created
              /\ Called("NamedTemporaryFile", NoPath, OSErrorNoSpace)
              /\ UNCHANGED <<files, temp_path>>
           \/ /\ files' = files \cup {path}     \* created, the write fails
              /\ Raise(OSErrorNoSpace)
              /\ Called("NamedTemporaryFile", path, OSErrorNoSpace)
              /\ UNCHANGED temp_path
    /\ UNCHANGED <<procVars, argVars, queueVars, cbVars, jobs_run, audio_format,
                   whisper_model, segments, transcription, pending, result, limit>>

\* tasks.py 92: temp_path.replace(".webm", ".wav")
wav_path == [temp_path EXCEPT !.ext = IF @ = ".webm" THEN ".wav" ELSE @]

\* tasks.py 91-109: ffmpeg writes wav_path; on exit status 0 the original is
\* unlinked and temp_path moves to the wav file.  A failing ffmpeg may have
\* written (part of) its output already.
ConvertWebM ==
    /\ pc = "convert"
    /\ \/ /\ files' = (files \cup {wav_path}) \ {temp_path}
          /\ temp_path' = wav_path
          /\ Called("ffmpeg", temp_path, NoExc)
          /\ pc' = "size"
          /\ UNCHANGED <<exc, first_exc>>
       \/ /\ \E partial \in BOOLEAN :
                files' = IF partial THEN files \cup {wav_path} ELSE files
          /\ Raise(ConversionError(CalledProcessError))
          /\ Called("ffmpeg", temp_path, CalledProcessError)
          /\ UNCHANGED temp_path
       \/ /\ Raise(FfmpegMissing)               \* not a CalledProcessError
          /\ Called("ffmpeg", temp_path, FfmpegMissing)
          /\ UNCHANGED <<files, temp_path>>
    /\ UNCHANGED <<procVars, argVars, queueVars, cbVars, jobs_run, audio_format,
                   whisper_model, segments, transcription, pending, result, limit>>

\* tasks.py 112-116
ValidateSize ==
    /\ pc = "size"
    /\ IF ByteLen(audio_bytes) < MinAudioBytes
       THEN Raise(TooSmallError(ByteLen(audio_bytes)))
       ELSE pc' = "acquire" /\ UNCHANGED <<exc, first_exc>>
    /\ UNCHANGED <<procVars, argVars, queueVars, calls, cbVars, files, jobs_run, audio_format,
                   temp_path, whisper_model, segments, transcription, pending,
                   result, limit>>

\* Mutant of NeedsLoad: the engine is constructed on every call.
NeedsLoad_always == TRUE

\* Mutant of NeedsLoad: the process id is not compared.
NeedsLoad_noPid == _process_model = NoModel

\* tasks.py 26
NeedsLoad == _process_model = NoModel \/ _process_id # current_pid

\* Mutant of ConstructionFails: the process id is recorded before the
\* constructor is called.
ConstructionFails_pidRecorded ==
    /\ Raise(ModelLoadError)
    /\ Called("get_whisper_model", NoPath, ModelLoadError)
    /\ _process_id' = current_pid
    /\ load_failed_pid' = current_pid
    /\ UNCHANGED <<_process_model, engines, model_log, whisper_model>>

\* tasks.py 30-34: WhisperModel(...) raises, so neither assignment to the
\* globals is made and the exception leaves get_whisper_model at tasks.py 119.
ConstructionFails ==
    /\ Raise(ModelLoadError)
    /\ Called("get_whisper_model", NoPath, ModelLoadError)
    /\ load_failed_pid' = current_pid
    /\ UNCHANGED <<_process_model, _process_id, engines, model_log,
                   whisper_model>>

\* tasks.py 21-40, called at tasks.py 119.  The globals are assigned only
\* when the WhisperModel constructor returns.
get_whisper_model ==
    IF NeedsLoad
    THEN \/ /\ engines' = engines + 1
            /\ _process_model' = engines + 1
            /\ _process_id' = current_pid
            /\ whisper_model' = engines + 1
            /\ model_log' = Append(model_log,
                   [pid |-> current_pid, model |-> engines + 1, loaded |-> TRUE,
                    cached |-> _process_model, recorded |-> _process_id,
                    after_failure |-> load_failed_pid = current_pid])
            /\ load_failed_pid' = NoPid
            /\ Called("get_whisper_model", NoPath, NoExc)
            /\ pc' = "transcribe"
            /\ UNCHANGED <<exc, first_exc>>
         \/ ConstructionFails
    ELSE /\ whisper_model' = _process_model
         /\ model_log' = Append(model_log,
                [pid |-> current_pid, model |-> _process_model, loaded |-> FALSE,
                 cached |-> _process_model, recorded |-> _process_id,
                    after_failure |-> load_failed_pid = current_pid])
         /\ load_failed_pid' = NoPid
         /\ Called("get_whisper_model", NoPath, NoExc)
         /\ pc' = "transcribe"
         /\ UNCHANGED <<_process_model, _process_id, engines, exc, first_exc>>

AcquireModel ==
    /\ pc = "acquire"
    /\ get_whisper_model
    /\ UNCHANGED <<current_pid, pids_used, argVars, queueVars, cbVars, files, jobs_run,
                   audio_format, temp_path, segments, transcription, pending,
                   result, limit>>

\* tasks.py 124-140
Transcribe ==
    /\ pc = "transcribe"
    /\ \/ \E s \in SegmentChoices :
             /\ segments' = s
             /\ Called("transcribe", temp_path, NoExc)
             /\ pc' = "postprocess"
             /\ UNCHANGED <<exc, first_exc>>
       \/ \E e \in EngineErrors :
             /\ Raise(IF InvalidDataFound(e) THEN CorruptAudioError(e) ELSE e)
             /\ Called("transcribe", temp_path, e)
             /\ UNCHANGED segments
    /\ UNCHANGED <<procVars, argVars, queueVars, cbVars, files, jobs_run, audio_format,
                   temp_path, whisper_model, transcription, pending, result, limit>>

\* Mutant of IsEmptyText: the empty text passes.
IsEmptyText_never(t) == FALSE

\* tasks.py 172: not transcription
IsEmptyText(t) == t = <<>>

\* tasks.py 143-173: the loop consumes the lazy segments (the engine may
\* raise while it decodes them), joins them and rejects an empty text.
PostProcess ==
    /\ pc = "postprocess"
    /\ \/ /\ transcription' = JoinSegments(segments)
          /\ Called("segments", NoPath, NoExc)
          /\ IF IsEmptyText(transcription')
             THEN Raise(EmptyTranscriptionError)
             ELSE pc' = "notify" /\ UNCHANGED <<exc, first_exc>>
       \/ \E e \in EngineErrors :              \* raised at tasks.py 148
             /\ Raise(e)
             /\ Called("segments", NoPath, e)
             /\ UNCHANGED transcription
    /\ UNCHANGED <<procVars, argVars, queueVars, cbVars, files, jobs_run, audio_format,
                   temp_path, whisper_model, segments, pending, result, limit>>

(***************************************************************************)
(* send_enterprise_callback, tasks.py 213-269.                             *)
(***************************************************************************)
max_retries == 2
timeout == 10
RetryDelay == 2

\* Mutant of PostTimeLimit: requests.post is called without timeout=, and an
\* unanswered request lasts until the transport gives up.
PostTimeLimit_unset == 6 * timeout

\* tasks.py 248: timeout=timeout, the time after which an unanswered
\* requests.post raises.
PostTimeLimit == timeout

\* What one requests.post can end in: a response with a status code, or an
\* exception (both are subclasses of Exception); "took" is the time the
\* call lasted, an answer arriving before the time limit.
PostOutcomes ==
    { [kind |-> "http", code |-> 200, exc |-> NoExc, took |-> 1],
      [kind |-> "http", code |-> 500, exc |-> NoExc, took |-> 1],
      [kind |-> "exception", code |-> 0,
       exc |-> [type |-> "ReadTimeout", msg |-> "Read timed out. (read timeout=10)"],
       took |-> PostTimeLimit] }

\* tasks.py 229-237
BuildPayload(c) ==
    LET payload == [jobId |-> c.job_id, status |-> c.status]
    IN  IF c.status = "completed" /\ TruthyText(c.transcription)
        THEN payload @@ ("transcription" :> c.transcription)
        ELSE IF c.status = "failed" /\ Truthy(c.error)
        THEN payload @@ ("error" :> c.error)
        ELSE payload

\* tasks.py 239-241
BuildHeaders(token) ==
    IF Truthy(token)
    THEN ("Content-Type" :> "application/json") @@ ("Authorization" :> "Bearer " \o token)
    ELSE ("Content-Type" :> "application/json")

\* Mutant of ExceptCatches: the except clause names a type that the
\* exceptions of requests do not derive from.
ExceptCatches_notRequests(e) == e.type \in {"SoftTimeLimitExceeded"}

\* tasks.py 259: except Exception
ExceptCatches(e) == e.type \in {"ReadTimeout", "ConnectionError", "SoftTimeLimitExceeded"}

\* Mutant of MayRetry: the delay is taken after every failed attempt.
MayRetry_afterLast == attempt <= max_retries

\* tasks.py 263
MayRetry == attempt < max_retries

\* The call of send_enterprise_callback begins: tasks.py 183, 200.
CallbackCalled(status, text, error) ==
    /\ cb' = [job_id |-> actual_job_id, status |-> status,
              transcription |-> text, error |-> error]
    /\ attempt' = 1
    /\ cb_slept' = 0
    /\ cb_elapsed' = 0
    /\ cb_state' = "running"
    /\ pc' = "cb_post"

\* send_enterprise_callback returns to its caller, which goes on to the
\* finally block: with "return transcription" (tasks.py 185-188) after a
\* completed callback, with "raise" (tasks.py 203) after a failed one.
CallbackReturns ==
    /\ cb_state' = "returned"
    /\ pending' = IF cb.status = "completed"
                  THEN [kind |-> "return", value |-> transcription, exc |-> NoExc]
                  ELSE [kind |-> "raise", value |-> NoText, exc |-> exc]
    /\ pc' = "finally"
    /\ UNCHANGED <<exc, first_exc>>

\* An exception e leaves send_enterprise_callback: called from the try body
\* it is caught at tasks.py 190, called from the handler it replaces the
\* exception being handled.
CallbackRaises(e) ==
    /\ cb_state' = "raised"
    /\ IF cb.status = "completed"
       THEN Raise(e) /\ UNCHANGED pending
       ELSE /\ pending' = [kind |-> "raise", value |-> NoText, exc |-> e]
            /\ pc' = "finally"
            /\ UNCHANGED <<exc, first_exc>>

\* tasks.py 228-260: one turn of the loop up to the end of the try statement.
PostWith(o) ==
    /\ posts' = Append(posts,
           [url |-> fixed_callback_url, payload |-> BuildPayload(cb),
            headers |-> BuildHeaders(callback_token), attempt |-> attempt,
            slept |-> cb_slept, outcome |-> o])
    /\ cb_elapsed' = cb_elapsed + o.took
    /\ IF o.kind = "http" /\ o.code = 200
       THEN CallbackReturns
       ELSE IF o.kind = "exception" /\ ~ExceptCatches(o.exc)
       THEN CallbackRaises(o.exc)
       ELSE pc' = "cb_retry" /\ UNCHANGED <<cb_state, pending, exc, first_exc>>

CallbackAttempt ==
    /\ pc = "cb_post"
    /\ \E o \in PostOutcomes : PostWith(o)
    /\ UNCHANGED <<procVars, argVars, queueVars, calls, files, jobs_run, audio_format, temp_path,
                   whisper_model, segments, transcription, result, limit,
                   cb, attempt, cb_slept>>

\* tasks.py 263-265: time.sleep(2), then the next turn of the loop.
CallbackBackoff ==
    /\ pc = "cb_retry"
    /\ MayRetry
    /\ cb_slept' = cb_slept + RetryDelay
    /\ cb_elapsed' = cb_elapsed + RetryDelay
    /\ attempt' = attempt + 1
    /\ pc' = IF attempt + 1 <= max_retries THEN "cb_post" ELSE "cb_retry"
    /\ UNCHANGED <<procVars, argVars, queueVars, calls, files, jobs_run, audio_format, temp_path,
                   whisper_model, segments, transcription, exc, first_exc,
                   pending, result, limit, cb, cb_state, posts>>

\* Mutant of CallbackGivesUp: a delivery that failed on every attempt is
\* raised to the caller.
CallbackGivesUp_raises ==
    /\ pc = "cb_retry"
    /\ ~MayRetry
    /\ CallbackRaises([type |-> "RuntimeError", msg |-> "callback not delivered"])
    /\ UNCHANGED <<procVars, argVars, queueVars, calls, files, jobs_run, audio_format, temp_path,
                   whisper_model, segments, transcription, result, limit,
                   cb, attempt, cb_slept, cb_elapsed, posts>>

\* tasks.py 227, 267-269: the range is used up; logged, and the call returns.
CallbackGivesUp ==
    /\ pc = "cb_retry"
    /\ ~MayRetry
    /\ CallbackReturns
    /\ UNCHANGED <<procVars, argVars, queueVars, calls, files, jobs_run, audio_format, temp_path,
                   whisper_model, segments, transcription, result, limit,
                   cb, attempt, cb_slept, cb_elapsed, posts>>

(***************************************************************************)
(* The end of transcribe_audio_with_callback.                              *)
(***************************************************************************)
\* tasks.py 181-188
NotifyCompleted ==
    /\ pc = "notify"
    /\ IF Truthy(fixed_callback_url)
       THEN CallbackCalled("completed", transcription, None) /\ UNCHANGED pending
       ELSE /\ pending' = [kind |-> "return", value |-> transcription, exc |-> NoExc]
            /\ pc' = "finally"
            /\ UNCHANGED <<cb, attempt, cb_slept, cb_state, cb_elapsed>>
    /\ UNCHANGED <<procVars, argVars, queueVars, calls, files, jobs_run, audio_format, temp_path,
                   whisper_model, segments, transcription, exc, first_exc,
                   result, limit, posts>>

\* tasks.py 190-203
ExceptHandler ==
    /\ pc = "except"
    /\ IF Truthy(fixed_callback_url)
       THEN CallbackCalled("failed", NoText, error_msg(exc)) /\ UNCHANGED pending
       ELSE /\ pending' = [kind |-> "raise", value |-> NoText, exc |-> exc]
            /\ pc' = "finally"
            /\ UNCHANGED <<cb, attempt, cb_slept, cb_state, cb_elapsed>>
    /\ UNCHANGED <<procVars, argVars, queueVars, calls, files, jobs_run, audio_format, temp_path,
                   whisper_model, segments, transcription, exc, first_exc,
                   result, limit, posts>>

\* tasks.py 205-211, then the pending return or raise reaches the queue
\* framework.  os.unlink of an existing file of the worker succeeds.
CleanupTempFile ==
    /\ pc = "finally"
    /\ files' = IF temp_path # NoPath /\ temp_path \in files
                THEN files \ {temp_path}
                ELSE files
    /\ result' = [kind |-> IF pending.kind = "return" THEN "returned" ELSE "raised",
                  value |-> pending.value, exc |-> pending.exc]
    /\ pc' = "done"
    /\ UNCHANGED <<procVars, argVars, queueVars, calls, cbVars, jobs_run, audio_format, temp_path,
                   whisper_model, segments, transcription, exc, first_exc,
                   pending, limit>>

(***************************************************************************)
(* The worker pool, between two tasks.                                     *)
(***************************************************************************)
\* The task has ended and its frame is gone: the arguments and locals of
\* transcribe_audio_with_callback (tasks.py 49-55) no longer exist.  What the
\* task gave to the queue framework stays in the result backend.
WorkerIdle ==
    /\ pc = "done"
    /\ pc' = "idle"
    /\ audio_bytes' = Bytes(<<>>)
    /\ job_id' = None
    /\ callback_url' = None
    /\ callback_token' = None
    /\ actual_job_id' = None
    /\ audio_format' = ""
    /\ temp_path' = NoPath
    /\ whisper_model' = NoModel
    /\ segments' = <<>>
    /\ transcription' = NoText
    /\ calls' = <<>>
    /\ exc' = NoExc
    /\ first_exc' = NoExc
    /\ pending' = NoPending
    /\ limit' = "none"
    /\ cb' = NoCallback
    /\ attempt' = 0
    /\ cb_slept' = 0
    /\ cb_elapsed' = 0
    /\ cb_state' = "none"
    /\ posts' = <<>>
    /\ UNCHANGED <<procVars, queueVars, files, jobs_run, request_id, result>>

\* celery_app.py 35: the pool replaces the child by a new one forked from
\* the parent, which never loaded a model.
WorkerRecycled ==
    /\ Resting
    /\ pids_used < MaxPids
    /\ current_pid' = pids_used + 1
    /\ pids_used' = pids_used + 1
    /\ _process_model' = NoModel
    /\ _process_id' = NoPid
    /\ UNCHANGED <<engines, model_log, load_failed_pid, argVars, queueVars, calls, cbVars, files, jobs_run, pc,
                   audio_format, temp_path, whisper_model, segments,
                   transcription, exc, first_exc, pending, result, limit>>

\* tasks.py 24: os.getpid() in a process forked from this one, which
\* inherits the module globals.
ForkInherits ==
    /\ Resting
    /\ pids_used < MaxPids
    /\ current_pid' = pids_used + 1
    /\ pids_used' = pids_used + 1
    /\ UNCHANGED <<_process_model, _process_id, engines, model_log, load_failed_pid, argVars, queueVars, calls,
                   cbVars, files, jobs_run, pc, audio_format, temp_path,
                   whisper_model, segments, transcription, exc, first_exc,
                   pending, result, limit>>

(***************************************************************************)
(* The time limits of the queue framework, celery_app.py 37-39.            *)
(***************************************************************************)
InTryBody ==
    pc \in {"detect", "persist", "convert", "size", "acquire", "transcribe",
            "postprocess", "notify"}

\* task_soft_time_limit: SoftTimeLimitExceeded, a subclass of Exception, is
\* raised once in the task at the statement it is executing.
SoftTimeLimit ==
    /\ limit = "none"
    /\ limit' = "soft"
    /\ \/ /\ InTryBody                           \* tasks.py 57-188
          /\ Raise(SoftTimeLimitExceeded)
          /\ UNCHANGED <<cbVars, files, calls, pending, result>>
       \/ /\ pc = "persist"                      \* inside tmp.write, tasks.py 85
          /\ files' = files \cup {[name |-> jobs_run, ext |-> audio_format]}
          /\ Raise(SoftTimeLimitExceeded)
          /\ Called("NamedTemporaryFile", [name |-> jobs_run, ext |-> audio_format],
                    SoftTimeLimitExceeded)
          /\ UNCHANGED <<cbVars, pending, result>>
       \/ /\ pc = "convert"                      \* inside subprocess.run, tasks.py 94
          /\ files' = files \cup {wav_path}
          /\ Raise(SoftTimeLimitExceeded)
          /\ Called("ffmpeg", temp_path, SoftTimeLimitExceeded)
          /\ UNCHANGED <<cbVars, pending, result>>
       \/ /\ pc = "cb_post"                      \* inside requests.post
          /\ PostWith([kind |-> "exception", code |-> 0, exc |-> SoftTimeLimitExceeded,
                       took |-> 1])
          /\ UNCHANGED <<cb, attempt, cb_slept, files, calls, result>>
       \/ /\ pc = "cb_retry"                     \* tasks.py 263-269
          /\ CallbackRaises(SoftTimeLimitExceeded)
          /\ UNCHANGED <<cb, attempt, cb_slept, cb_elapsed, posts, files, calls, result>>
       \/ /\ pc = "except"                       \* tasks.py 191-199
          /\ pending' = [kind |-> "raise", value |-> NoText, exc |-> SoftTimeLimitExceeded]
          /\ pc' = "finally"
          /\ UNCHANGED <<cbVars, files, calls, exc, first_exc, result>>
       \/ /\ pc = "finally"                      \* tasks.py 206
          /\ result' = [kind |-> "raised", value |-> NoText, exc |-> SoftTimeLimitExceeded]
          /\ pc' = "done"
          /\ UNCHANGED <<cbVars, files, calls, exc, first_exc, pending>>
    /\ UNCHANGED <<procVars, argVars, queueVars, jobs_run, audio_format, temp_path,
                   whisper_model, segments, transcription>>

\* task_time_limit, 30 seconds after the soft limit: the pool kills the
\* child that runs the task and starts a new one; nothing of the task runs
\* any more.
HardTimeLimit ==
    /\ limit = "soft"
    /\ ~Resting
    /\ pids_used < MaxPids
    /\ limit' = "hard"
    /\ result' = [kind |-> "killed", value |-> NoText,
                  exc |-> [type |-> "TimeLimitExceeded", msg |-> "TimeLimitExceeded(300,)"]]
    /\ pc' = "done"
    /\ current_pid' = pids_used + 1
    /\ pids_used' = pids_used + 1
    /\ _process_model' = NoModel
    /\ _process_id' = NoPid
    /\ UNCHANGED <<engines, model_log, load_failed_pid, argVars, queueVars, calls, cbVars, files, jobs_run,
                   audio_format, temp_path, whisper_model, segments,
                   transcription, exc, first_exc, pending>>

(***************************************************************************)
(* The loss of a worker process, celery_app.py 33-35 and 50-53.            *)
(***************************************************************************)
task_acks_late == TRUE

\* Mutant of task_reject_on_worker_lost: the setting is left at its default.
task_reject_on_worker_lost_default == FALSE

task_reject_on_worker_lost == TRUE

WorkerLostError ==
    [type |-> "WorkerLostError", msg |-> "Worker exited prematurely: signal 9 (SIGKILL)"]

\* What the framework does with the unacknowledged message of a task whose
\* process is gone: put it back on the queue, or acknowledge it.
Requeued == task_acks_late /\ task_reject_on_worker_lost

\* The child that runs the task dies (killed by a signal, out of memory, a
\* crash of the engine); the pool starts a new child.  Nothing of the task
\* runs any more; its files and the requests it sent stay as they are.
WorkerLost ==
    /\ ~Resting
    /\ losses < MaxLost
    /\ pids_used < MaxPids
    /\ losses' = losses + 1
    /\ result' = [kind |-> "lost", value |-> NoText, exc |-> WorkerLostError]
    /\ pc' = "done"
    /\ queue' = IF Requeued
                THEN Append(queue, [id |-> request_id, audio_bytes |-> audio_bytes,
                                    job_id |-> job_id, callback_url |-> callback_url,
                                    callback_token |-> callback_token])
                ELSE queue
    /\ reported' = reported \cup
           {posts[i].payload.status : i \in {j \in DOMAIN posts :
                posts[j].outcome.kind = "http" /\ posts[j].outcome.code = 200}}
    /\ current_pid' = pids_used + 1
    /\ pids_used' = pids_used + 1
    /\ _process_model' = NoModel
    /\ _process_id' = NoPid
    /\ UNCHANGED <<engines, model_log, load_failed_pid, argVars, calls, cbVars, files, jobs_run,
                   audio_format, temp_path, whisper_model, segments,
                   transcription, exc, first_exc, pending, limit,
                   submitted, response, lookup, deliveries>>

(***************************************************************************)
(* GET /result/{job_id}, main.py 94-126.                                   *)
(***************************************************************************)
\* AsyncResult(id, app=celery_app), main.py 99: the state and the result
\* the backend holds under id, for the ids of the last published message.
\* An id under which no task was published is PENDING.
AsyncResult(id) ==
    IF queue # <<>> /\ Head(queue).id = id
    THEN [state |-> IF deliveries = 0 THEN "PENDING" ELSE "STARTED",
          value |-> NoText, exc |-> NoExc]
    ELSE IF deliveries > 0 /\ id = request_id
    THEN CASE result.kind = "returned" ->
                 [state |-> "SUCCESS", value |-> result.value, exc |-> NoExc]
           [] result.kind \in {"raised", "killed"} ->
                 [state |-> "FAILURE", value |-> NoText, exc |-> result.exc]
           [] OTHER ->
                 [state |-> "STARTED", value |-> NoText, exc |-> NoExc]
    ELSE [state |-> "PENDING", value |-> NoText, exc |-> NoExc]

\* str.lower() of a state name
lower(state) ==
    CASE state = "PENDING" -> "pending"
      [] state = "STARTED" -> "started"
      [] state = "SUCCESS" -> "success"
      [] state = "FAILURE" -> "failure"

\* main.py 95-122
get_result(id) ==
    LET r == AsyncResult(id)
    IN  IF r.state = "FAILURE"
        THEN [job_id |-> id, status |-> "failed",
              error |-> IF r.exc # NoExc THEN r.exc.msg ELSE "Unknown error"]
        ELSE IF r.state = "SUCCESS"
        THEN [job_id |-> id, status |-> "completed", transcription |-> r.value,
              length |-> IF TruthyText(r.value) THEN Len(r.value) ELSE 0]
        ELSE [job_id |-> id, status |-> lower(r.state)]

\* The caller asks for the job id the endpoint returned.
GetResult ==
    /\ response.code = 200
    /\ lookup' = get_result(response.job_id)
    /\ UNCHANGED <<procVars, argVars, calls, cbVars, files, jobs_run, pc,
                   audio_format, temp_path, whisper_model, segments,
                   transcription, exc, first_exc, pending, result, limit,
                   queue, submitted, response, deliveries, losses, reported>>

(***************************************************************************)
(* Specifications.                                                         *)
(***************************************************************************)
\* The steps of a task and of the pool, the arrival of a task apart.
Steps ==
    \/ DetectFormat
    \/ PersistTempFile
    \/ ConvertWebM
    \/ ValidateSize
    \/ AcquireModel
    \/ Transcribe
    \/ PostProcess
    \/ NotifyCompleted
    \/ ExceptHandler
    \/ CallbackAttempt
    \/ CallbackBackoff
    \/ CallbackGivesUp
    \/ CleanupTempFile
    \/ WorkerIdle
    \/ WorkerRecycled
    \/ ForkInherits

Next ==
    \/ PostTranscribe
    \/ TaskReceived
    \/ Steps

\* The worker with every task finishing within its time limits.
Spec == Init /\ [][Next]_vars

PostTranscribeTimed == PostTranscribeOf(MaxTimedJobs, AudioInputs, RequestInputs)

NextLimits ==
    \/ PostTranscribeTimed
    \/ TaskReceived
    \/ Steps
    \/ SoftTimeLimit
    \/ HardTimeLimit

\* The worker with the time limits of celery_app.py in force.
SpecLimits == Init /\ [][NextLimits]_vars

\* The payloads of SpecQueue: one the task converts and transcribes, and one
\* the endpoint refuses.
QueueAudio == {Pad(EBML, MinAudioBytes), Oversize}

PostTranscribeQueue == PostTranscribeOf(MaxQueueJobs, QueueAudio, QueueRequests)

NextQueue ==
    \/ PostTranscribeQueue
    \/ TaskReceived
    \/ Steps
    \/ WorkerLost
    \/ GetResult

\* The endpoints, the queue and the worker, with worker processes that can
\* be lost while they run a task.
SpecQueue == Init /\ [][NextQueue]_vars

(***************************************************************************)
(* SpecDetect: detect_audio_format on every prefix of every signature,     *)
(* followed by up to MaxTail more bytes.                                   *)
(***************************************************************************)
Signatures == {RIFF, EBML, OggS, ID3, MPEGSync, fLaC}
TailBytes == {0, 70, 251}
SeqsUpTo(S, n) == UNION {[1..m -> S] : m \in 0..n}
SignaturePrefixes ==
    UNION { {SubSeq(sig, 1, k) : k \in 0..Len(sig)} : sig \in Signatures }
DetectInputs ==
    { Bytes(head \o tail) :
        head \in SignaturePrefixes, tail \in SeqsUpTo(TailBytes, MaxTail) }

\* A task that has just been received, with the given payload and optional
\* arguments, in a fresh worker.
TaskStarted(a, r) ==
    /\ current_pid = 1
    /\ _process_model = NoModel
    /\ _process_id = NoPid
    /\ pids_used = 1
    /\ engines = 0
    /\ load_failed_pid = NoPid
    /\ model_log = <<>>
    /\ files = {}
    /\ queue = <<>>
    /\ submitted = 1
    /\ response = [code |-> 200, job_id |-> IngressJobId(r[1], RequestId(1)),
                   detail |-> "processing"]
    /\ lookup = NoLookup
    /\ deliveries = 1
    /\ losses = 0
    /\ reported = {}
    /\ jobs_run = 1
    /\ pc = "detect"
    /\ request_id = RequestId(1)
    /\ audio_bytes = a
    /\ job_id = r[1]
    /\ callback_url = r[2]
    /\ callback_token = r[3]
    /\ actual_job_id = ActualJobId(r[1], RequestId(1))
    /\ audio_format = ""
    /\ temp_path = NoPath
    /\ whisper_model = NoModel
    /\ segments = <<>>
    /\ transcription = NoText
    /\ calls = <<>>
    /\ exc = NoExc
    /\ first_exc = NoExc
    /\ pending = NoPending
    /\ result = NoResult
    /\ limit = "none"
    /\ cb = NoCallback
    /\ attempt = 0
    /\ cb_slept = 0
    /\ cb_elapsed = 0
    /\ cb_state = "none"
    /\ posts = <<>>

InitDetect == \E a \in DetectInputs : TaskStarted(a, <<None, None, None>>)

NextDetect == DetectFormat

SpecDetect == InitDetect /\ [][NextDetect]_vars

(***************************************************************************)
(* SpecJoin: the task from the engine's answer on, for every list of up to *)
(* MaxSegs segment texts of up to MaxTextLen characters.  The task has no  *)
(* callback URL and runs a wav payload in a fresh worker.                  *)
(***************************************************************************)
TextChars == {" ", "a"}
SegmentInputs == SeqsUpTo(SeqsUpTo(TextChars, MaxTextLen), MaxSegs)

InitJoin ==
    /\ current_pid = 1
    /\ _process_model = 1
    /\ _process_id = 1
    /\ pids_used = 1
    /\ engines = 1
    /\ load_failed_pid = NoPid
    /\ model_log = <<[pid |-> 1, model |-> 1, loaded |-> TRUE,
                      cached |-> NoModel, recorded |-> NoPid,
                      after_failure |-> FALSE]>>
    /\ files = {[name |-> 1, ext |-> ".wav"]}
    /\ queue = <<>>
    /\ submitted = 1
    /\ response = [code |-> 200, job_id |-> RequestId(1), detail |-> "processing"]
    /\ lookup = NoLookup
    /\ deliveries = 1
    /\ losses = 0
    /\ reported = {}
    /\ jobs_run = 1
    /\ pc = "postprocess"
    /\ request_id = RequestId(1)
    /\ audio_bytes = Pad(RIFF, MinAudioBytes)
    /\ job_id = None
    /\ callback_url = None
    /\ callback_token = None
    /\ actual_job_id = RequestId(1)
    /\ audio_format = ".wav"
    /\ temp_path = [name |-> 1, ext |-> ".wav"]
    /\ whisper_model = 1
    /\ segments \in SegmentInputs
    /\ transcription = NoText
    /\ calls = << [op |-> "NamedTemporaryFile", path |-> [name |-> 1, ext |-> ".wav"], exc |-> NoExc],
                [op |-> "get_whisper_model", path |-> NoPath, exc |-> NoExc],
                [op |-> "transcribe", path |-> [name |-> 1, ext |-> ".wav"], exc |-> NoExc] >>
    /\ exc = NoExc
    /\ first_exc = NoExc
    /\ pending = NoPending
    /\ result = NoResult
    /\ limit = "none"
    /\ cb = NoCallback
    /\ attempt = 0
    /\ cb_slept = 0
    /\ cb_elapsed = 0
    /\ cb_state = "none"
    /\ posts = <<>>

NextJoin ==
    \/ PostProcess
    \/ NotifyCompleted
    \/ ExceptHandler
    \/ CleanupTempFile

SpecJoin == InitJoin /\ [][NextJoin]_vars

(***************************************************************************)
(* Claims.                                                                 *)
(***************************************************************************)
Statuses == {posts[i].payload.status : i \in DOMAIN posts}
TaskEnded == pc = "done" /\ jobs_run > 0
HasCallbackUrl == Truthy(callback_url)
MyFiles == {f \in files : f.name = jobs_run}

\* data, written out, has the bytes of p as its first bytes.
HasPrefix(data, p) ==
    LET all == data.head \o [i \in 1..data.zeros |-> 0]
    IN  Len(all) >= Len(p) /\ SubSeq(all, 1, Len(p)) = p

\* The format the signature table assigns to a byte string.
ExpectedFormat(data) ==
    IF HasPrefix(data, <<82, 73, 70, 70>>) THEN ".wav"
    ELSE IF HasPrefix(data, <<26, 69, 223, 163>>) THEN ".webm"
    ELSE IF HasPrefix(data, <<79, 103, 103, 83>>) THEN ".ogg"
    ELSE IF HasPrefix(data, <<73, 68, 51>>) THEN ".mp3"
    ELSE IF HasPrefix(data, <<255, 251>>) THEN ".mp3"
    ELSE IF HasPrefix(data, <<102, 76, 97, 67>>) THEN ".flac"
    ELSE ".webm"

\* C10: detect_audio_format answers for every byte string, the empty one and
\* the ones shorter than a signature included, and its answer is the format
\* of the signature the bytes start with, webm when they start with none.
C10_DetectFollowsSignatureTable ==
    pc = "persist" =>
        /\ audio_format \in {".wav", ".webm", ".ogg", ".mp3", ".flac"}
        /\ audio_format = ExpectedFormat(audio_bytes)

\* C10 witness: the frame-sync bytes followed by one more byte give mp3.
C10_Witness ==
    /\ pc = "persist"
    /\ audio_bytes = Bytes(<<255, 251, 0>>)
    /\ audio_format = ".mp3"

\* C10 witness of the fallback: bytes shorter than the RIFF signature.
C10_WitnessShort ==
    /\ pc = "persist"
    /\ audio_bytes = Bytes(<<82, 73, 70>>)
    /\ audio_format = ".webm"

\* The reference of post-processing: trim, drop the empty texts, keep the
\* first occurrence of each text, join with single spaces.
Trimmed(s) ==
    LET ink == {i \in 1..Len(s) : s[i] \notin Whitespace}
    IN  IF ink = {} THEN <<>>
        ELSE SubSeq(s, CHOOSE i \in ink : \A j \in ink : i <= j,
                       CHOOSE i \in ink : \A j \in ink : i >= j)
FirstOccurrences(segs) ==
    {i \in 1..Len(segs) :
        /\ Trimmed(segs[i]) # <<>>
        /\ \A j \in 1..(i - 1) : Trimmed(segs[j]) # Trimmed(segs[i])}
RECURSIVE SpacedTexts(_, _)
SpacedTexts(segs, idx) ==
    IF idx = {} THEN <<>>
    ELSE LET last == CHOOSE i \in idx : \A j \in idx : i >= j
             rest == idx \ {last}
         IN  IF rest = {} THEN Trimmed(segs[last])
             ELSE SpacedTexts(segs, rest) \o <<" ">> \o Trimmed(segs[last])
ReferenceText(segs) == SpacedTexts(segs, FirstOccurrences(segs))

\* C8: when the engine has yielded all its segments, the text the task goes
\* on with and returns is the reference text; when the reference text is
\* empty the task raises the empty-transcription error and returns no text.
C8_PostProcessingMatchesReference ==
    /\ pc = "notify" =>
          transcription = ReferenceText(segments) /\ transcription # <<>>
    /\ (pc = "except" /\ exc \notin EngineErrors) =>
          ReferenceText(segments) = <<>> /\ exc = EmptyTranscriptionError
    /\ (pc = "done" /\ result.kind = "returned") =>
          result.value = ReferenceText(segments) /\ result.value # <<>>
    /\ (pc = "done" /\ result.kind = "raised" /\ result.exc \notin EngineErrors) =>
          /\ ReferenceText(segments) = <<>>
          /\ result.exc = EmptyTranscriptionError
          /\ result.value = NoText

\* C8 witness: three segments whose trimmed texts are "a", "a", "aa".
C8_Witness ==
    /\ pc = "done"
    /\ segments = <<<<"a", " ">>, <<" ", "a">>, <<"a", "a">>>>
    /\ result.kind = "returned"
    /\ result.value = <<"a", " ", "a", "a">>

\* C8 witness of the empty case: only whitespace and empty segments.
C8_WitnessEmpty ==
    /\ pc = "done"
    /\ segments = <<<<" ">>, <<>>, <<" ", " ">>>>
    /\ result.kind = "raised"
    /\ result.exc = EmptyTranscriptionError

\* C7: of the get_whisper_model calls made under one process id, the first
\* one that returns constructed the engine, no later one constructed
\* anything, and all of them returned that engine.
C7_OneEnginePerProcess ==
    \A j \in DOMAIN model_log :
        LET earlier == {i \in 1..(j - 1) : model_log[i].pid = model_log[j].pid}
        IN  /\ model_log[j].loaded <=> earlier = {}
            /\ \A i \in earlier : model_log[i].model = model_log[j].model

\* C7 witness: two calls under one process id, the second one served from
\* the cache.
C7_Witness ==
    /\ Len(model_log) = 2
    /\ model_log[1].pid = model_log[2].pid
    /\ model_log[1].loaded
    /\ ~model_log[2].loaded
    /\ model_log[1].model = model_log[2].model

Delivered(p) == p.outcome.kind = "http" /\ p.outcome.code = 200

\* C1 (its "never both" half): the requests of one task never carry both
\* the status completed and the status failed.
C1_NeverBothOutcomes == Cardinality(Statuses) <= 1

\* C1 (its "never none" half): a task with a callback URL that returned or
\* raised has posted an outcome.
C1_NeverNoOutcome ==
    (TaskEnded /\ HasCallbackUrl /\ result.kind \in {"returned", "raised"}) =>
        Statuses # {}

\* C2: a call of send_enterprise_callback makes at most 2 attempts and
\* returns to its caller whatever the attempts ended in; no exception
\* leaves it.
C2_CallbackNeverRaises ==
    /\ cb_state # "raised"
    /\ attempt <= 2
    /\ Len(posts) <= 2
    /\ \A i \in DOMAIN posts : posts[i].attempt \in {1, 2}
    /\ (pc \in {"finally", "done"} /\ cb_state # "none") => cb_state = "returned"
    /\ (pc \in {"finally", "done"} /\ HasCallbackUrl) => cb_state = "returned"

\* C2 witness: both attempts ended in an I/O exception, and the call
\* returned.
C2_Witness ==
    /\ cb_state = "returned"
    /\ Len(posts) = 2
    /\ posts[1].outcome.kind = "exception"
    /\ posts[2].outcome.kind = "exception"

\* C3: the first attempt follows no delay; a second attempt is made exactly
\* after a first attempt that was not answered 200, and follows one delay
\* of 2 units; nothing follows a 200 answer; when the call returns, its
\* last attempt was answered 200 or was the second one, and the delay slept
\* in the call is the delay slept before that last attempt.
C3_OneDelayBetweenAttempts ==
    /\ \A i \in DOMAIN posts :
          /\ posts[i].attempt = i
          /\ i = 1 => posts[i].slept = 0
          /\ i = 2 => posts[i].slept = 2 /\ ~Delivered(posts[1])
          /\ Delivered(posts[i]) => i = Len(posts)
    /\ cb_state = "returned" =>
          /\ posts # <<>>
          /\ Delivered(posts[Len(posts)]) \/ Len(posts) = 2
          /\ cb_slept = posts[Len(posts)].slept
          /\ cb_slept = 2 * (Len(posts) - 1)

\* C3 witness: 500, then one delay of 2 units, then 200.
C3_Witness ==
    /\ cb_state = "returned"
    /\ Len(posts) = 2
    /\ posts[1].outcome.code = 500
    /\ posts[2].outcome.code = 200
    /\ cb_slept = 2

\* C4: when the task has ended, no temporary file of the task exists.
C4_NoTempFileRemains == TaskEnded => MyFiles = {}

\* C5: a task in whose try body an exception was raised ends by raising
\* that exception, type and message unchanged; with a callback URL every
\* request it sent is a failed one carrying "<type>: <message>" of that
\* exception, and one was sent before the finally block is reached.
C5_FailureReportedThenReraised ==
    /\ (TaskEnded /\ first_exc # NoExc) =>
          /\ result.kind = "raised"
          /\ result.exc = first_exc
    /\ (pc \in {"finally", "done"} /\ first_exc # NoExc /\ HasCallbackUrl) =>
          /\ posts # <<>>
          /\ \A i \in DOMAIN posts :
                /\ posts[i].payload.status = "failed"
                /\ "error" \in DOMAIN posts[i].payload
                /\ posts[i].payload.error = first_exc.type \o ": " \o first_exc.msg
    /\ (TaskEnded /\ result.kind = "raised") => first_exc # NoExc

\* C5 witness: the engine's invalid-data error, remapped, reported by two
\* requests that both failed, and raised.
C5_Witness ==
    /\ TaskEnded
    /\ result.kind = "raised"
    /\ result.exc = CorruptAudioError(InvalidDataError)
    /\ Len(posts) = 2
    /\ ~Delivered(posts[1])
    /\ ~Delivered(posts[2])
    /\ posts[2].payload.error =
         "ValueError: Archivo de audio corrupto o formato no valido: [Errno 1094995529] Invalid data found when processing input"

\* C6, for the tasks whose temporary file could be written: a task given
\* fewer than 100 bytes ends by raising the too-small error, and every
\* request it sent carries that error.
C6_ShortInputFailsTooSmall ==
    (TaskEnded /\ ByteLen(audio_bytes) < 100 /\ temp_path # NoPath) =>
        /\ result.kind = "raised"
        /\ result.exc = TooSmallError(ByteLen(audio_bytes))
        /\ \A i \in DOMAIN posts :
              /\ "error" \in DOMAIN posts[i].payload
              /\ posts[i].payload.error = error_msg(TooSmallError(ByteLen(audio_bytes)))

\* C9: a completed request carries a non-empty transcription and no error,
\* a failed request a non-empty error and no transcription, and the task
\* returns no empty text.
C9_CallbackBodiesWellFormed ==
    /\ \A i \in DOMAIN posts :
          LET p == posts[i].payload
          IN  /\ p.status \in {"completed", "failed"}
              /\ p.status = "completed" =>
                    /\ DOMAIN p = {"jobId", "status", "transcription"}
                    /\ p.transcription # <<>>
                    /\ p.transcription # NoText
              /\ p.status = "failed" =>
                    /\ DOMAIN p = {"jobId", "status", "error"}
                    /\ p.error # ""
                    /\ p.error # None
    /\ result.kind = "returned" =>
          result.value # <<>> /\ result.value # NoText

\* C9 witness: the completed request of "Hola mundo".
C9_Witness ==
    /\ posts # <<>>
    /\ posts[1].payload =
         [jobId |-> "job-A", status |-> "completed",
          transcription |-> Hola \o <<" ">> \o mundo]

\* C9 witness of a failed request.
C9_WitnessFailed ==
    /\ posts # <<>>
    /\ posts[1].payload =
         [jobId |-> "task-1", status |-> "failed",
          error |-> "ValueError: Transcripcion vacia"]

\* The calls of op the task has made so far.
CallsOf(op) == {i \in DOMAIN calls : calls[i].op = op}
AudioConversionError ==
    [type |-> "ValueError",
     msg |-> "Error convirtiendo WebM a WAV: Command '/usr/bin/ffmpeg' returned non-zero exit status 1."]
PastConversion == pc \notin {"idle", "detect", "persist", "convert"}

\* C11: a task whose payload starts with the WebM signature and whose
\* temporary file was written calls ffmpeg; when ffmpeg exits non-zero the
\* task calls nothing after it, acquires no model, never calls transcribe,
\* and ends by raising the conversion error.
C11_FailedConversionStopsJob ==
    HasPrefix(audio_bytes, <<26, 69, 223, 163>>) =>
        /\ (temp_path # NoPath /\ PastConversion) => CallsOf("ffmpeg") # {}
        /\ \A i \in CallsOf("ffmpeg") :
              calls[i].exc = CalledProcessError =>
                 /\ i = Len(calls)
                 /\ CallsOf("get_whisper_model") = {}
                 /\ CallsOf("transcribe") = {}
                 /\ whisper_model = NoModel
                 /\ first_exc = AudioConversionError
                 /\ TaskEnded => result.kind = "raised" /\ result.exc = AudioConversionError

\* C11 witness: a WebM payload, ffmpeg exited non-zero, the task raised.
C11_Witness ==
    /\ TaskEnded
    /\ audio_bytes = Pad(EBML, 100)
    /\ \E i \in CallsOf("ffmpeg") : calls[i].exc = CalledProcessError
    /\ result.kind = "raised"
    /\ result.exc = AudioConversionError

\* C12: a task whose first request carried the status completed sends only
\* completed requests, has no exception raised in it, and ends by returning
\* the transcription of those requests, whatever the requests ended in.
C12_DeliveryFailureIsNotJobFailure ==
    (pc \in {"finally", "done"} /\ posts # <<>> /\ posts[1].payload.status = "completed") =>
        /\ \A i \in DOMAIN posts : posts[i].payload.status = "completed"
        /\ first_exc = NoExc
        /\ pending.kind = "return"
        /\ pending.value = posts[1].payload.transcription
        /\ TaskEnded =>
              /\ result.kind = "returned"
              /\ result.value = posts[1].payload.transcription

\* C12 witness: two completed requests, answered 500 and timed out, and the
\* task returned the transcription.
C12_Witness ==
    /\ TaskEnded
    /\ Len(posts) = 2
    /\ posts[1].payload.status = "completed"
    /\ posts[1].outcome.code = 500
    /\ posts[2].outcome.kind = "exception"
    /\ result.kind = "returned"
    /\ result.value = Hola \o <<" ">> \o mundo

\* C13: a task that ended after the soft time limit was raised in it, or by
\* the hard time limit, has left no temporary file of its own.
C13_NoTempFileAfterCancellation == (TaskEnded /\ limit # "none") => MyFiles = {}

\* C14: a task given fewer than 100 bytes creates no temporary file, never
\* calls ffmpeg and never acquires the model.
C14_SizeValidatedFirst ==
    ByteLen(audio_bytes) < 100 =>
        /\ CallsOf("NamedTemporaryFile") = {}
        /\ CallsOf("ffmpeg") = {}
        /\ CallsOf("get_whisper_model") = {}
        /\ MyFiles = {}

\* C15: ffmpeg is called at most once in a task, and only for the detected
\* format webm; a webm task whose temporary file was written has called it
\* once the conversion step is behind; for wav, ogg, mp3 and flac the file
\* given to transcribe is the file NamedTemporaryFile created, for webm it
\* is the wav file a successful ffmpeg wrote.
C15_TranscoderOnlyForWebm ==
    /\ Cardinality(CallsOf("ffmpeg")) <= 1
    /\ CallsOf("ffmpeg") # {} => audio_format = ".webm"
    /\ (audio_format = ".webm" /\ temp_path # NoPath /\ PastConversion) =>
          Cardinality(CallsOf("ffmpeg")) = 1
    /\ \A i \in CallsOf("transcribe") :
          /\ calls[1].op = "NamedTemporaryFile"
          /\ calls[1].exc = NoExc
          /\ audio_format \in {".wav", ".ogg", ".mp3", ".flac"} =>
                /\ calls[i].path = calls[1].path
                /\ calls[i].path.ext = audio_format
                /\ pc = "postprocess" => calls[i].path \in files
          /\ audio_format = ".webm" =>
                /\ calls[i].path = [name |-> calls[1].path.name, ext |-> ".wav"]
                /\ \E j \in CallsOf("ffmpeg") : j < i /\ calls[j].exc = NoExc

\* C15 witness: an ogg payload went to transcribe as the ogg file that was
\* created, with no call of ffmpeg.
C15_Witness ==
    /\ audio_format = ".ogg"
    /\ CallsOf("ffmpeg") = {}
    /\ \E i \in CallsOf("transcribe") : calls[i].path = [name |-> jobs_run, ext |-> ".ogg"]

\* C15 witness of the webm side: ffmpeg failed, was called once, and the
\* task ended.
C15_WitnessFailed ==
    /\ TaskEnded
    /\ audio_format = ".webm"
    /\ Cardinality(CallsOf("ffmpeg")) = 1
    /\ \E i \in CallsOf("ffmpeg") : calls[i].exc # NoExc

\* C16: a task in which the engine raised, from transcribe or while its
\* segments were consumed, ends by raising the corrupt-audio error when the
\* engine's message has "Invalid data found" in it, and the engine's own
\* exception otherwise.
C16_InvalidDataAlwaysRemapped ==
    TaskEnded =>
        \A i \in CallsOf("transcribe") \cup CallsOf("segments") :
            calls[i].exc # NoExc =>
                /\ result.kind = "raised"
                /\ result.exc =
                     IF calls[i].exc.msg = "[Errno 1094995529] Invalid data found when processing input"
                     THEN [type |-> "ValueError",
                           msg |-> "Archivo de audio corrupto o formato no valido: [Errno 1094995529] Invalid data found when processing input"]
                     ELSE calls[i].exc

\* C17: every handle get_whisper_model returned was constructed by a call
\* made under the same process id; a call that finds a handle recorded
\* under another process id constructs a new engine; a call constructs one
\* only when it finds no handle or another process id; once a call has
\* returned in the current process, the recorded process id is the current
\* one, and the handle a running task holds is the one of its process.
C17_HandleBuiltInCallingProcess ==
    /\ \A j \in DOMAIN model_log :
          /\ \E i \in 1..j : /\ model_log[i].loaded
                            /\ model_log[i].model = model_log[j].model
                            /\ model_log[i].pid = model_log[j].pid
          /\ model_log[j].recorded # model_log[j].pid => model_log[j].loaded
          /\ model_log[j].loaded =>
                \/ model_log[j].cached = NoModel
                \/ model_log[j].recorded # model_log[j].pid
          /\ \A i \in DOMAIN model_log :
                model_log[i].model = model_log[j].model =>
                    model_log[i].pid = model_log[j].pid
    /\ (model_log # <<>> /\ model_log[Len(model_log)].pid = current_pid) =>
          /\ _process_id = current_pid
          /\ _process_model = model_log[Len(model_log)].model
    /\ (whisper_model # NoModel /\ ~Resting) =>
          /\ whisper_model = _process_model
          /\ _process_id = current_pid

\* C17 witness: a forked process found the handle of its parent and
\* constructed its own.
C17_Witness ==
    /\ Len(model_log) = 2
    /\ model_log[2].cached = model_log[1].model
    /\ model_log[2].recorded = model_log[1].pid
    /\ model_log[2].pid # model_log[1].pid
    /\ model_log[2].loaded
    /\ model_log[2].model # model_log[1].model

\* C18: every request of a run of the accepted job carries one jobId: the
\* job_id the caller supplied when it is not empty, the task id otherwise,
\* which is the job_id the endpoint answered with.
C18_CallbacksCarryReturnedJobId ==
    (response.code = 200 /\ deliveries > 0) =>
        \A i \in DOMAIN posts :
            /\ posts[i].payload.jobId = response.job_id
            /\ posts[i].payload.jobId =
                 IF job_id \notin {None, ""} THEN job_id ELSE request_id

\* C18 witness: two requests under the supplied job id.
C18_Witness ==
    /\ response = [code |-> 200, job_id |-> "job-A", detail |-> "processing"]
    /\ Len(posts) = 2
    /\ posts[1].payload.jobId = "job-A"
    /\ posts[2].payload.jobId = "job-A"

\* C18 witness of the task id: an empty job_id field, a failed request
\* under the task id.
C18_WitnessTaskId ==
    /\ response = [code |-> 200, job_id |-> "task-1", detail |-> "processing"]
    /\ job_id = ""
    /\ posts # <<>>
    /\ posts[1].payload.jobId = "task-1"
    /\ posts[1].payload.status = "failed"

\* C19: a result query made for the returned job id when the job has
\* returned answers completed with the text returned, and made when it has
\* raised answers failed with the message of the exception.
C19_ResultQueryReportsOutcome ==
    [][(GetResult /\ Resting /\ deliveries > 0 /\ queue = <<>>) =>
          /\ result.kind = "returned" =>
                /\ lookup'.status = "completed"
                /\ lookup'.transcription = result.value
          /\ result.kind = "raised" =>
                /\ lookup'.status = "failed"
                /\ lookup'.error = result.exc.msg]_vars

C21_BlockedAtMostTimeoutTimesAttempts ==
    cb_state \in {"running", "returned"} => cb_elapsed <= 10 * 2

\* C21 as amended: one call blocks its caller for at most timeout x attempts
\* plus the delay between the attempts, 10 x 2 + 2 x 1 = 22 time units; a
\* call whose two attempts both ran to their timeout has blocked for
\* exactly that long, and a call answered with 200 at once for less than
\* one timeout.
C21_BlockedAtMostTimeoutsAndDelay ==
    cb_state \in {"running", "returned"} =>
       /\ cb_elapsed <= 10 * 2 + 2 * (2 - 1)
       /\ (cb_state = "returned" /\ Len(posts) = 2
             /\ \A i \in 1..2 : posts[i].outcome.exc.type = "ReadTimeout") =>
             cb_elapsed = 22
       /\ (cb_state = "returned" /\ Len(posts) = 1) => cb_elapsed < 10

\* C21 witness: both attempts timed out, the delay was taken between them,
\* and the call has returned after 22 time units.
C21_Witness ==
    /\ cb_state = "returned"
    /\ Len(posts) = 2
    /\ posts[1].outcome.exc.type = "ReadTimeout"
    /\ posts[2].outcome.exc.type = "ReadTimeout"
    /\ cb_slept = 2
    /\ cb_elapsed = 22

\* C22: a get_whisper_model call in which the construction of the engine
\* fails leaves the cached handle and the recorded process id as they were,
\* so that no handle is recorded for the current process; the job ends
\* raising that error; and the call that follows a failed one in the same
\* process has constructed an engine when it returns, never handing out
\* what the globals held.
C22_FailedConstructionIsRetried ==
    [][/\ calls' = Append(calls, [op |-> "get_whisper_model", path |-> NoPath,
                                  exc |-> ModelLoadError]) =>
             /\ _process_model' = _process_model
             /\ _process_id' = _process_id
             /\ _process_model' = NoModel \/ _process_id' # current_pid'
             /\ whisper_model' = NoModel
             /\ exc' = ModelLoadError
             /\ pc' = "except"
       /\ (pc = "finally" /\ pc' = "done"
             /\ \E i \in CallsOf("get_whisper_model") : calls[i].exc = ModelLoadError) =>
             /\ result'.kind = "raised"
             /\ result'.exc = ModelLoadError
       /\ (pc = "acquire" /\ load_failed_pid = current_pid) =>
             \/ pc' = "acquire"
             \/ calls' = Append(calls, [op |-> "get_whisper_model", path |-> NoPath,
                                        exc |-> ModelLoadError])
             \/ /\ engines' = engines + 1
                /\ whisper_model' = engines + 1
                /\ _process_model' = whisper_model'
                /\ _process_id' = current_pid
       /\ \A j \in DOMAIN model_log' :
             model_log'[j].after_failure =>
                /\ model_log'[j].loaded
                /\ model_log'[j].model \notin {NoModel, model_log'[j].cached}]_vars

\* C22 witness: the first job of the process failed in the construction of
\* the engine and reported it; the second job, in the same process, has
\* constructed the engine.
C22_Witness ==
    /\ jobs_run = 2
    /\ pids_used = 1
    /\ pc = "transcribe"
    /\ model_log = <<[pid |-> 1, model |-> 1, loaded |-> TRUE,
                      cached |-> NoModel, recorded |-> NoPid,
                      after_failure |-> TRUE]>>
    /\ whisper_model = 1
    /\ _process_model = 1
    /\ _process_id = current_pid

\* C22 witness of the failure: the job has ended raising the error of the
\* constructor, and the globals hold no handle.
C22_WitnessFailed ==
    /\ TaskEnded
    /\ \E i \in CallsOf("get_whisper_model") : calls[i].exc = ModelLoadError
    /\ result = [kind |-> "raised", value |-> NoText, exc |-> ModelLoadError]
    /\ _process_model = NoModel
    /\ _process_id = NoPid
    /\ load_failed_pid = current_pid

====
